---- MODULE Spec2Model ----
(***************************************************************************)
(* Model of the Naukri job scraper: the CLI drivers runFromConfig and      *)
(* runSingleScrape (index.js), scrapeAndSave with the Job collection, and  *)
(* NaukriScraper.scrapeJobs / scrapeJobDetails / closeBrowser.             *)
(* One step of the model is one awaited operation of the program; the      *)
(* outcome of every browser or database call (success or rejection) is     *)
(* chosen by the environment.                                              *)
(***************************************************************************)
EXTENDS Integers, Sequences, FiniteSets, TLC

\* ----------------------------------------------------------------------
\* Bounds of the model
\* ----------------------------------------------------------------------
MaxKeywords == 2
MaxPages == 2
MaxCards == 2
\* Detail pages left open are counted up to this number.
MaxLeakedTracked == 1
\* Lengths of the skill lists handed to matchSkills on its own.
MaxJobSkills == 2
MaxConfigSkills == 1
\* Calls of closeBrowser made on one scraper object.
MaxCloseCalls == 2
\* Label elements, and spans and divs, of a detail page.
MaxLabels == 2
MaxNodes == 2
\* Candidate selectors of key skills, of the nine, that a detail page is
\* given elements for.
MaxSelectorGroups == 2

\* Job URLs that the site can serve.
Urls == {"u1", "u2"}

VARIABLES
    mode,               \* "config" (runFromConfig), "single" (runSingleScrape), "list", "stats"
    numKeywords,        \* keywords.length
    maxPages,           \* pages argument handed to scrapeJobs
    shouldScrapeDetails,\* config.scraping.scrapeJobDetails !== false
    configSkills,       \* config.skills
    mongoUri,           \* process.env.MONGODB_URI: "missing" or "set"
    db,                 \* the Mongoose connection: "none", "open", "closed", "closeFailed"
    pc,                 \* position of the single thread of control
    browser,            \* this.browser: "null", "open" or "closed"
    initStarted,        \* initBrowser was called
    closeCalls,         \* number of closeBrowser invocations
    released,           \* number of times the browser process was closed
    loginCall,          \* the running call of login: credentials given,
                        \* login page navigated, value returned
    kw,                 \* index i of the keyword loop (1-based)
    pageNum,            \* pageNum of the scrapeJobs loop
    allJobs,            \* allJobs of scrapeJobs
    jobs,               \* jobs of the current page
    cardIdx,            \* index i of the enrichment loop (1-based)
    details,            \* details of the running scrapeJobDetails call
    pageDetails,        \* value returned by detailPage.evaluate
    detailPage,         \* detailPage of the running call: "none", "open", "closed"
    leakedPages,        \* detail pages left open by calls that returned
    detailFault,        \* step of scrapeJobDetails that rejected, or "none"
    pageFault,          \* step of the page iteration that rejected, or "none"
    endReason,          \* why the pagination loop ended
    error,              \* an exception is propagating
    navPages,           \* page indexes scrapeJobs navigated to, in order
    attempted,          \* keywords whose page-1 navigation was issued
    donePages,          \* record sets of the pages that reached allJobs.push
    raisedKw,           \* keyword whose scrapeJobs raised, 0 if none
    store,              \* documents of the Job collection
    saveIdx,            \* position of the for..of loop of scrapeAndSave
    savedCount,
    duplicateCount,
    matchedCount,
    conflicts,          \* writes of this call rejected with code 11000
    results,            \* value returned by the last scrapeAndSave
    inserted,           \* writes of this scrapeAndSave call that inserted
    updated,            \* writes of this scrapeAndSave call that updated
    lastWritten,        \* per jobUrl, the record of the latest successful write
    fn,                 \* function applied on its own, "none" in a run of the CLI
    args,               \* its arguments
    ret                 \* the value it returned

vars == <<mode, numKeywords, maxPages, shouldScrapeDetails, configSkills, mongoUri, db,
          pc, browser, initStarted, closeCalls, released, loginCall, kw,
          pageNum, allJobs, jobs, cardIdx, details, pageDetails, detailPage,
          leakedPages, detailFault, pageFault, endReason, error, navPages, attempted, donePages,
          raisedKw, store, saveIdx, savedCount, duplicateCount, matchedCount,
          conflicts, results, inserted, updated, lastWritten, fn, args, ret>>

configVars == <<mode, numKeywords, maxPages, shouldScrapeDetails, configSkills, mongoUri>>
browserVars == <<browser, initStarted, closeCalls, released, loginCall>>
unitVars == <<fn, args, ret>>
detailVars == <<details, pageDetails, detailPage, leakedPages, detailFault>>
pageVars == <<pageNum, allJobs, jobs, cardIdx, pageFault, endReason, navPages, attempted, donePages>>
saveVars == <<store, saveIdx, savedCount, duplicateCount, matchedCount, conflicts,
              results, inserted, updated, lastWritten>>

\* ----------------------------------------------------------------------
\* Text
\* ----------------------------------------------------------------------
\* A text is a sequence of characters; a text whose characters the program
\* never inspects is written as one token. The empty string is <<>>. URLs
\* are kept as atoms ("" is the empty URL).
T(token) == <<token>>

\* The value undefined of JavaScript, kept apart from every text.
Undefined == <<"<undefined>">>

IsSpace(c) == c = " "

\* String.prototype.toLowerCase, on the letters the model uses.
Lower(c) ==
    CASE c = "J" -> "j"
      [] c = "S" -> "s"
      [] c = "G" -> "g"
      [] c = "O" -> "o"
      [] c = "V" -> "v"
      [] c = "N" -> "n"
      [] OTHER -> c

ToLowerCase(s) == [i \in 1..Len(s) |-> Lower(s[i])]

RECURSIVE TrimStart(_)
TrimStart(s) ==
    IF s # <<>> /\ IsSpace(Head(s)) THEN TrimStart(Tail(s)) ELSE s

RECURSIVE TrimEnd(_)
TrimEnd(s) ==
    IF s # <<>> /\ IsSpace(s[Len(s)]) THEN TrimEnd(SubSeq(s, 1, Len(s) - 1)) ELSE s

\* String.prototype.trim.
Trim(s) == TrimEnd(TrimStart(s))

\* String.prototype.includes: t occurs in s as a contiguous run (the empty
\* text occurs in every text).
Includes(s, t) ==
    \E i \in 0..(Len(s) - Len(t)) : SubSeq(s, i + 1, i + Len(t)) = t

\* The texts of the model.
JS == <<"J", "S">>
Go == <<"G", "o">>

\* ----------------------------------------------------------------------
\* Data
\* ----------------------------------------------------------------------
NoDoc == [jobUrl |-> "none"]
NoLoginCall == [creds |-> FALSE, navigated |-> FALSE, returned |-> "none",
                failed |-> "none"]

\* JavaScript a || b on strings: the empty string is falsy.
OrElse(a, b) == IF a = <<>> THEN b ELSE a

\* The details object scrapeJobDetails starts from.
DefaultDetails ==
    [fullDescription |-> <<>>, keySkills |-> <<>>, industryTypes |-> <<>>,
     jobPostedAt |-> T("Not specified"), salaryOffered |-> T("Not disclosed"),
     totalVacancy |-> T("Not specified")]

\* What detailPage.evaluate returns on the detail page of a job: the page of
\* u1 resolves every field, the page of u2 resolves none.
PageDetailsOf(u) ==
    IF u = "u1"
    THEN [fullDescription |-> T("full text"), keySkills |-> <<Go>>,
          industryTypes |-> <<T("IT Services")>>, jobPostedAt |-> T("2 days ago"),
          salaryOffered |-> T("10-15 Lacs"), totalVacancy |-> T("3")]
    ELSE [fullDescription |-> <<>>, keySkills |-> <<>>, industryTypes |-> <<>>,
          jobPostedAt |-> T("Not specified"), salaryOffered |-> T("Not disclosed"),
          totalVacancy |-> T("Not specified")]

\* ----------------------------------------------------------------------
\* scrapeJobDetails: totalVacancy inside detailPage.evaluate
\* ----------------------------------------------------------------------
IsDigit(c) == c \in {"0", "1", "2", "3", "4", "5", "6", "7", "8", "9"}

\* The longest run of digits s starts with.
RECURSIVE DigitPrefix(_)
DigitPrefix(s) ==
    IF s # <<>> /\ IsDigit(Head(s)) THEN <<Head(s)>> \o DigitPrefix(Tail(s)) ELSE <<>>

\* s.match(/\d+/): the leftmost run of digits, <<>> for no match.
RECURSIVE FirstDigitRun(_)
FirstDigitRun(s) ==
    IF s = <<>> THEN <<>>
    ELSE IF IsDigit(Head(s)) THEN DigitPrefix(s)
    ELSE FirstDigitRun(Tail(s))

VacancyWord == <<"v", "a", "c", "a", "n", "c", "y">>
OpeningWord == <<"o", "p", "e", "n", "i", "n", "g">>

\* s starts with t.
StartsWith(s, t) == Len(s) >= Len(t) /\ SubSeq(s, 1, Len(t)) = t

\* s.match(/(\d+)\s*openings?/i): group 1 of the leftmost match, <<>> for
\* no match. A match starting at the head of s takes all the digits there,
\* then any blanks, then the word.
RECURSIVE OpeningsMatch(_)
OpeningsMatch(s) ==
    IF s = <<>> THEN <<>>
    ELSE LET digits == DigitPrefix(s)
             rest == TrimStart(SubSeq(s, Len(digits) + 1, Len(s)))
         IN IF digits # <<>> /\ StartsWith(ToLowerCase(rest), OpeningWord)
            THEN digits
            ELSE OpeningsMatch(Tail(s))

\* result.totalVacancy = match[1] (line 469); the first variant keeps a
\* value an earlier write has set.
VacancyOverwrite_KeepFirst(current, found) ==
    IF current = T("Not specified") THEN found ELSE current
VacancyOverwrite(current, found) == found

\* allLabels.forEach (lines 405-424), the vacancy part: a label naming a
\* vacancy or an opening writes the first number of its value text.
RECURSIVE LabelPairScan(_, _)
LabelPairScan(totalVacancy, labels) ==
    IF labels = <<>> THEN totalVacancy
    ELSE LET labelText == ToLowerCase(Trim(Head(labels).label))
             valueText == Trim(Head(labels).value)
             vacancyMatch == FirstDigitRun(valueText)
         IN LabelPairScan(
                IF /\ \/ Includes(labelText, VacancyWord)
                      \/ Includes(labelText, OpeningWord)
                   /\ vacancyMatch # <<>>
                THEN vacancyMatch ELSE totalVacancy,
                Tail(labels))

\* infoSpans.forEach (lines 463-472): every span or div whose trimmed text
\* is shorter than 30 characters, names an opening and has a digit is
\* matched against "N openings".
RECURSIVE OpeningsScan(_, _)
OpeningsScan(totalVacancy, nodes) ==
    IF nodes = <<>> THEN totalVacancy
    ELSE LET text == Trim(Head(nodes))
             match == OpeningsMatch(text)
         IN OpeningsScan(
                IF /\ Includes(ToLowerCase(text), OpeningWord)
                   /\ FirstDigitRun(text) # <<>>
                   /\ Len(text) < 30
                   /\ match # <<>>
                THEN VacancyOverwrite(totalVacancy, match) ELSE totalVacancy,
                Tail(nodes))

\* result.totalVacancy as the callback of evaluate leaves it: the default
\* (line 350), then the label pairs, then the spans and divs.
TotalVacancy(labels, nodes) ==
    OpeningsScan(LabelPairScan(T("Not specified"), labels), nodes)

\* ----------------------------------------------------------------------
\* extractJobCards
\* ----------------------------------------------------------------------
\* An element a selector resolves to inside a listing card, or its absence.
NoElement == [present |-> FALSE, text |-> <<>>]
El(t) == [present |-> TRUE, text |-> t]

\* el?.textContent?.trim() || fallback (lines 255-287); the first variant
\* drops the fallback.
TextOr_NoFallback(el, fallback) == IF el.present THEN Trim(el.text) ELSE Undefined
TextOr(el, fallback) ==
    IF el.present /\ Trim(el.text) # <<>> THEN Trim(el.text) ELSE fallback

\* Array.from(skillElements).map(el => el.textContent?.trim()).filter(Boolean)
SkillTexts(els) ==
    SelectSeq([i \in 1..Len(els) |-> Trim(els[i])], LAMBDA t : t # <<>>)

\* The record built from one card (lines 254-287, 291-303). link is the href
\* of the link element, "" when there is none.
ExtractCard(card, searchKeyword) ==
    [title |-> TextOr(card.title, <<>>),
     jobUrl |-> card.link,
     company |-> TextOr(card.company, <<>>),
     location |-> TextOr(card.location, T("Not specified")),
     experience |-> TextOr(card.experience, T("Not specified")),
     salary |-> TextOr(card.salary, T("Not disclosed")),
     skills |-> SkillTexts(card.skills),
     description |-> TextOr(card.description, <<>>),
     postedDate |-> TextOr(card.postedDate, T("Not specified")),
     searchKeyword |-> searchKeyword,
     scrapedAt |-> T("now")]

\* if (title && company && jobUrl) (line 290); the first variant leaves the
\* company out of the test.
PassesGate_NoCompany(job) ==
    /\ job.title \notin {<<>>, Undefined}
    /\ job.jobUrl # ""
PassesGate(job) ==
    /\ job.title \notin {<<>>, Undefined}
    /\ job.company \notin {<<>>, Undefined}
    /\ job.jobUrl # ""

\* extractJobCards: the records of the cards that pass the gate, in order.
ExtractJobCards(cards, searchKeyword) ==
    SelectSeq([i \in 1..Len(cards) |-> ExtractCard(cards[i], searchKeyword)],
              PassesGate)

\* ----------------------------------------------------------------------
\* buildSearchUrl
\* ----------------------------------------------------------------------
\* encodeURIComponent on the characters the model uses: letters and "-" are
\* kept, a space becomes %20 and "+" becomes %2B.
EncodeChar(c) ==
    CASE c = " " -> <<"%", "2", "0">>
      [] c = "+" -> <<"%", "2", "B">>
      [] OTHER -> <<c>>

RECURSIVE EncodeURIComponent(_)
EncodeURIComponent(s) ==
    IF s = <<>> THEN <<>> ELSE EncodeChar(Head(s)) \o EncodeURIComponent(Tail(s))

\* replace(/\s+/g, '-'): every run of whitespace becomes one hyphen.
RECURSIVE ReplaceWhitespaceRuns(_)
ReplaceWhitespaceRuns(s) ==
    IF s = <<>> THEN <<>>
    ELSE IF IsSpace(Head(s)) THEN <<"-">> \o ReplaceWhitespaceRuns(TrimStart(s))
    ELSE <<Head(s)>> \o ReplaceWhitespaceRuns(Tail(s))

\* An optional member of the experience object, and the experience filter
\* itself (null, or an object with optional min and max).
Undef == [defined |-> FALSE]
Def(n) == [defined |-> TRUE, value |-> n]
NoExperience == [isNull |-> TRUE, min |-> Undef, max |-> Undef]

\* if (pageNum === 1) (line 220); the first variant always takes the else
\* branch.
IsFirstPage_Never(page) == FALSE
IsFirstPage(page) == page = 1

\* buildSearchUrl (lines 215-237). The literal parts of the template are
\* single tokens.
buildSearchUrl(keyword, page, experience) ==
    LET encodedKeyword ==
            EncodeURIComponent(ReplaceWhitespaceRuns(ToLowerCase(keyword)))
        searchParam == EncodeURIComponent(keyword)
        base ==
            IF IsFirstPage(page)
            THEN <<"https://www.naukri.com", "/">> \o encodedKeyword
                     \o <<"-jobs", "?k=">> \o searchParam
            ELSE <<"https://www.naukri.com", "/">> \o encodedKeyword
                     \o <<"-jobs", "-", ToString(page), "?k=">> \o searchParam
        minPart ==
            IF ~experience.isNull /\ experience.min.defined
            THEN <<"&niyoMinExp=", ToString(experience.min.value)>> ELSE <<>>
        maxPart ==
            IF ~experience.isNull /\ experience.max.defined
            THEN <<"&niyoMaxExp=", ToString(experience.max.value)>> ELSE <<>>
    IN base \o minPart \o maxPart

\* experienceLabel of scrapeJobs (line 517): '' without an experience
\* filter, otherwise `${experience.min || 0}-${experience.max || 'any'} yrs`,
\* where || takes its right side for undefined and for 0.
ExperienceLabel(experience) ==
    IF experience.isNull THEN <<>>
    ELSE <<IF experience.min.defined /\ experience.min.value # 0
           THEN ToString(experience.min.value) ELSE ToString(0),
           "-",
           IF experience.max.defined /\ experience.max.value # 0
           THEN ToString(experience.max.value) ELSE "any",
           " yrs">>

\* What scrapeJobs derives from the experience filter it was given: the
\* label it attaches to every record (lines 583, 594) and the search URL of
\* a page (line 529).
ScrapeJobsExperience(keyword, page, experience) ==
    [experienceFilter |-> ExperienceLabel(experience),
     url |-> buildSearchUrl(keyword, page, experience)]

\* The keyword of the modelled runs (every entry of config.keywords is this
\* text), and the listing cards of the two jobs of the site: the card of u1
\* carries every element, the card of u2 only the essential ones.
Keyword == <<"J", "s">>

RawCardOf(u) ==
    IF u = "u1"
    THEN [title |-> El(T("Developer")), link |-> u, company |-> El(T("Acme")),
          location |-> El(T("Pune")), experience |-> El(T("2-5 Yrs")),
          salary |-> El(T("8-12 Lacs")), skills |-> <<JS>>,
          description |-> El(T("snippet")), postedDate |-> El(T("1 day ago"))]
    ELSE [title |-> El(T("Developer")), link |-> u, company |-> El(T("Acme")),
          location |-> NoElement, experience |-> NoElement,
          salary |-> NoElement, skills |-> <<>>,
          description |-> NoElement, postedDate |-> NoElement]

\* A record pushed by extractJobCards for a card that passed the gate.
Card(u) == ExtractCard(RawCardOf(u), Keyword)

\* The jobs of the site in listing order, and the result pages it can serve:
\* the sub-lists, of at most n cards, of that listing.
Catalogue == <<Card("u1"), Card("u2")>>

RECURSIVE SubLists(_)
SubLists(cs) ==
    IF cs = <<>> THEN { <<>> }
    ELSE SubLists(Tail(cs)) \cup { <<Head(cs)>> \o r : r \in SubLists(Tail(cs)) }

PageResults(n) == { r \in SubLists(Catalogue) : Len(r) <= n }

Min(a, b) == IF a <= b THEN a ELSE b

RECURSIVE Flatten(_)
Flatten(ss) == IF ss = <<>> THEN <<>> ELSE Head(ss) \o Flatten(Tail(ss))

\* ----------------------------------------------------------------------
\* Helpers of scrapeJobs
\* ----------------------------------------------------------------------

\* matchSkills (lines 37-50): the job skills that contain, or are contained
\* in, some configured skill, both sides lowercased and trimmed. The first
\* variant tests the containment in one direction only.
matchSkills_OneWay(jobSkills, cfgSkills) ==
    IF Len(cfgSkills) = 0 \/ Len(jobSkills) = 0 THEN <<>>
    ELSE LET normalizedConfigSkills ==
                 [i \in 1..Len(cfgSkills) |-> Trim(ToLowerCase(cfgSkills[i]))]
             Keeps(skill) ==
                 LET normalizedSkill == Trim(ToLowerCase(skill))
                 IN \E i \in 1..Len(normalizedConfigSkills) :
                        Includes(normalizedSkill, normalizedConfigSkills[i])
         IN SelectSeq(jobSkills, Keeps)
matchSkills(jobSkills, cfgSkills) ==
    IF Len(cfgSkills) = 0 \/ Len(jobSkills) = 0 THEN <<>>
    ELSE LET normalizedConfigSkills ==
                 [i \in 1..Len(cfgSkills) |-> Trim(ToLowerCase(cfgSkills[i]))]
             Keeps(skill) ==
                 LET normalizedSkill == Trim(ToLowerCase(skill))
                 IN \E i \in 1..Len(normalizedConfigSkills) :
                        \/ Includes(normalizedSkill, normalizedConfigSkills[i])
                        \/ Includes(normalizedConfigSkills[i], normalizedSkill)
         IN SelectSeq(jobSkills, Keeps)

\* [...new Set(xs)]: the first occurrence of every element, in order.
RECURSIVE Distinct(_)
Distinct(xs) ==
    IF xs = <<>> THEN <<>>
    ELSE LET front == Distinct(SubSeq(xs, 1, Len(xs) - 1))
             last == xs[Len(xs)]
         IN IF \E i \in 1..Len(front) : front[i] = last
            THEN front ELSE Append(front, last)

\* keySkills inside detailPage.evaluate of scrapeJobDetails.
\* Lines 385-398. groups[k] holds the textContent of the elements the k-th
\* selector of skillSelectors matches, in document order. The loop stops at
\* the first selector that matches an element; of its elements, the trimmed
\* texts that are not empty and shorter than 100 characters enter the Set,
\* which keeps the first occurrence of each.
RECURSIVE KeySkills(_)
KeySkills(groups) ==
    IF groups = <<>> THEN <<>>
    ELSE LET elements == Head(groups)
         IN IF Len(elements) > 0
            THEN Distinct(SelectSeq([i \in 1..Len(elements) |-> Trim(elements[i])],
                                    LAMBDA text : text # <<>> /\ Len(text) < 100))
            ELSE KeySkills(Tail(groups))

\* Lines 573-578: the merge of a details object into a listing record; the
\* first variant takes keySkills from the details whatever they hold.
MergeDetails_NoFallback(job, d) ==
    [fullDescription |-> OrElse(d.fullDescription, <<>>),
     keySkills |-> d.keySkills,
     industryTypes |-> d.industryTypes,
     jobPostedAt |-> OrElse(d.jobPostedAt, job.postedDate),
     salaryOffered |-> OrElse(d.salaryOffered, job.salary),
     totalVacancy |-> OrElse(d.totalVacancy, T("Not specified"))] @@ job
MergeDetails(job, d) ==
    [fullDescription |-> OrElse(d.fullDescription, <<>>),
     keySkills |-> IF Len(d.keySkills) > 0 THEN d.keySkills ELSE job.skills,
     industryTypes |-> d.industryTypes,
     jobPostedAt |-> OrElse(d.jobPostedAt, job.postedDate),
     salaryOffered |-> OrElse(d.salaryOffered, job.salary),
     totalVacancy |-> OrElse(d.totalVacancy, T("Not specified"))] @@ job

\* Lines 581-583: skill matching over the listing skills and the key skills;
\* experienceLabel is '' since the modelled runs set no experience filter.
\* The first variant returns every skill of the job and of the configuration.
MatchMerged_All(job, configuredSkills) ==
    [matchedSkills |-> Distinct(job.skills \o job.keySkills) \o configuredSkills,
     experienceFilter |-> <<>>] @@ job
MatchMerged(job, configuredSkills) ==
    [matchedSkills |->
         matchSkills(Distinct(job.skills \o job.keySkills), configuredSkills),
     experienceFilter |-> <<>>] @@ job

\* Lines 573-583 in the order of the code: the detail fields are merged,
\* then the skills are matched over the merged record. The first variant
\* matches before the merge, when the record holds its listing skills only.
EnrichCard_MatchFirst(job, d, configuredSkills) ==
    MergeDetails([matchedSkills |-> matchSkills(job.skills, configuredSkills),
                  experienceFilter |-> <<>>] @@ job, d)
EnrichCard(job, d, configuredSkills) ==
    MatchMerged(MergeDetails(job, d), configuredSkills)

\* i < jobs.length of the enrichment loop (line 566), i being the 1-based
\* index of the card just enriched; the first variant leaves the loop after
\* the first card.
MoreCards_Never(i, n) == FALSE
MoreCards(i, n) == i < n

\* Lines 592-601: the record written when detail scraping is off. The
\* first variant leaves the skill matching out.
PlainDetails_NoMatching(job, configuredSkills) ==
    [matchedSkills |-> <<>>,
     experienceFilter |-> <<>>,
     fullDescription |-> <<>>,
     keySkills |-> job.skills,
     industryTypes |-> <<>>,
     jobPostedAt |-> job.postedDate,
     salaryOffered |-> job.salary,
     totalVacancy |-> T("Not specified")] @@ job
PlainDetails(job, configuredSkills) ==
    [matchedSkills |-> matchSkills(job.skills, configuredSkills),
     experienceFilter |-> <<>>,
     fullDescription |-> <<>>,
     keySkills |-> job.skills,
     industryTypes |-> <<>>,
     jobPostedAt |-> job.postedDate,
     salaryOffered |-> job.salary,
     totalVacancy |-> T("Not specified")] @@ job

\* The loop condition of the pagination loop (line 527); the first variant
\* runs one page too far.
PageLoopContinues_Off(p, m) == p <= m + 1
PageLoopContinues(p, m) == p <= m

\* The catch of the page iteration (lines 612-620): rethrow on page 1, break
\* after; the first variant never rethrows.
CatchPageError_Break(p) == "break"
CatchPageError(p) == IF p = 1 THEN "throw" ELSE "break"

\* Where control goes when waitForSelector rejects (lines 547-550): break;
\* the first variant lets the rejection reach the outer catch.
NoCardsTarget_Throw == "pageCatch"
NoCardsTarget == "scrapeReturn"

\* Where control goes when extractJobCards returns [] (lines 555-558): break;
\* the first variant goes on paginating.
ZeroCardsTarget_Continue == "pageEnd"
ZeroCardsTarget == "scrapeReturn"

\* Where control goes from the catch of scrapeJobDetails (lines 498-502):
\* the error is logged and details is returned; the first variant rethrows.
DetailCatchTarget_Rethrow == "pageCatch"
DetailCatchTarget == "merge"

\* ----------------------------------------------------------------------
\* Helpers of scrapeAndSave: Job.findOneAndUpdate with upsert
\* ----------------------------------------------------------------------
RECURSIVE FindIdxFrom(_, _, _)
FindIdxFrom(st, url, k) ==
    IF k > Len(st) THEN 0
    ELSE IF st[k].jobUrl = url THEN k
    ELSE FindIdxFrom(st, url, k + 1)

\* Index of the first document matching { jobUrl: url }, 0 when none matches.
FindIdx(st, url) == FindIdxFrom(st, url, 1)

\* findOneAndUpdate(filter, jobData, { upsert: true }): the matching document
\* takes the fields of jobData, or jobData is inserted when none matches; the
\* first variant is a plain insert.
Upsert_InsertOnly(st, job) == Append(st, job)
Upsert(st, job) ==
    IF FindIdx(st, job.jobUrl) = 0
    THEN Append(st, job)
    ELSE [st EXCEPT ![FindIdx(st, job.jobUrl)] = job]

\* The records of js written one after the other.
RECURSIVE UpsertAll(_, _)
UpsertAll(st, js) ==
    IF js = <<>> THEN st ELSE UpsertAll(Upsert(st, Head(js)), Tail(js))

\* result.isNew of the document findOneAndUpdate resolves to (line 99). The
\* document is hydrated from the database, and Mongoose marks every hydrated
\* document isNew = false, whether the write inserted or updated.
ResultIsNew(existed) == FALSE

\* The value results starts from (line 75).
NoResults_CountsTheCall == [found |-> 0, saved |-> 0, duplicates |-> 1, matched |-> 0]
NoResults == [found |-> 0, saved |-> 0, duplicates |-> 0, matched |-> 0]
NoArgs == [none |-> TRUE]

\* The state of a process in which nothing has run yet.
Idle ==
    /\ db = "none"
    /\ closeCalls = 0
    /\ released = 0
    /\ loginCall = NoLoginCall
    /\ kw = 1
    /\ pageNum = 1
    /\ allJobs = <<>>
    /\ jobs = <<>>
    /\ cardIdx = 1
    /\ details = DefaultDetails
    /\ pageDetails = DefaultDetails
    /\ detailPage = "none"
    /\ leakedPages = 0
    /\ detailFault = "none"
    /\ pageFault = "none"
    /\ endReason = "none"
    /\ error = FALSE
    /\ navPages = <<>>
    /\ attempted = {}
    /\ donePages = <<>>
    /\ raisedKw = 0
    /\ store = <<>>
    /\ saveIdx = 1
    /\ savedCount = 0
    /\ duplicateCount = 0
    /\ matchedCount = 0
    /\ conflicts = 0
    /\ results = NoResults
    /\ inserted = 0
    /\ updated = 0
    /\ lastWritten = [u \in Urls |-> NoDoc]

\* A run of the commands "run" (runFromConfig), "scrape" (runSingleScrape),
\* "list" (listJobs) or "stats" (showStats); the last two read no setting
\* of the scraper.
\* The keyword list of the configuration is empty, of one keyword or full.
\* The runs over several keywords are modelled with one configured skill,
\* the runs of one keyword with and without.
Init ==
    /\ mode \in {"config", "single", "list", "stats"}
    /\ numKeywords \in (IF mode = "config" THEN {0, 1, MaxKeywords} ELSE {1})
    /\ maxPages \in (CASE mode = "config" -> 1..MaxPages
                        [] mode = "single" -> 0..MaxPages
                        [] OTHER -> {1})
    /\ shouldScrapeDetails \in (IF mode \in {"list", "stats"} THEN {TRUE} ELSE BOOLEAN)
    /\ configSkills \in (CASE mode = "config" -> {<<<<"j", "s">>>>}
                            [] mode = "single" -> {<<>>, <<<<"j", "s">>>>, <<<<"g", "o">>>>}
                            [] OTHER -> {<<>>})
    /\ mongoUri \in {"missing", "set"}
    /\ pc = "command"
    /\ browser = "null"
    /\ initStarted = FALSE
    /\ Idle
    /\ fn = "none"
    /\ args = NoArgs
    /\ ret = <<>>

\* ----------------------------------------------------------------------
\* The commands run, scrape, list and stats (index.js lines 326-399)
\* ----------------------------------------------------------------------

\* Where the catch of connectDB leaves the process (database.js lines
\* 28-31): process.exit(1); the first variant returns to the command.
ConnectDBCatch_Return == "start"
ConnectDBCatch == "exit"

\* await connectDB(): a missing MONGODB_URI throws inside the try, and so
\* may mongoose.connect; the catch ends the process.
ConnectDB ==
    /\ pc = "command"
    /\ \E connected \in BOOLEAN :
          IF mongoUri = "set" /\ connected
          THEN pc' = "start" /\ db' = "open" /\ UNCHANGED error
          ELSE pc' = ConnectDBCatch /\ error' = TRUE /\ UNCHANGED db
    /\ UNCHANGED <<configVars, unitVars, browserVars, kw, pageVars, detailVars,
                   raisedKw, saveVars>>

\* ----------------------------------------------------------------------
\* The drivers: runFromConfig and runSingleScrape
\* ----------------------------------------------------------------------

\* Entry of the driver. runFromConfig returns before the try block when the
\* keyword list is empty (lines 168-173), and the command goes on to its
\* finally block.
Start ==
    /\ pc = "start"
    /\ mode \in {"config", "single"}
    /\ pc' = IF mode = "config" /\ numKeywords = 0 THEN "commandFinally" ELSE "initBrowser"
    /\ UNCHANGED <<configVars, db, unitVars, browserVars, kw, pageVars, detailVars, error,
                   raisedKw, saveVars>>

\* scraper.initBrowser(): puppeteer.launch may reject (this.browser stays
\* null), or a later call of the set-up may reject (this.browser is set).
InitBrowser ==
    /\ pc = "initBrowser"
    /\ initStarted' = TRUE
    /\ \E outcome \in {"ok", "launchFails", "setupFails"} :
          /\ browser' = IF outcome = "launchFails" THEN "null" ELSE "open"
          /\ error' = (outcome # "ok")
          /\ pc' = IF outcome = "ok" THEN "login" ELSE "finally"
    /\ UNCHANGED <<configVars, db, unitVars, closeCalls, released, loginCall, kw,
                   pageVars, detailVars, raisedKw, saveVars>>

\* Where control goes from the catch of login (lines 202-205): the error is
\* logged and false is returned; the first variant rethrows.
LoginCatch_Rethrow == "finally"
LoginCatch == "loginReturned"

\* The login step of the driver. runFromConfig always calls scraper.login,
\* runSingleScrape only with --login. login(email, password) returns false
\* without touching the page when a credential is missing; otherwise it
\* navigates to the login page, and a rejection of the navigation, of the
\* wait for the form or of a later step is caught; a timeout of the wait
\* for the post-login marker returns false as well. (The flag
\* this.isLoggedIn it sets on success is read nowhere.)
Login ==
    /\ pc = "login"
    /\ \E withLogin \in (IF mode = "config" THEN {TRUE} ELSE BOOLEAN),
          hasCreds \in BOOLEAN, outcome \in {"ok", "nav", "form", "marker"} :
          IF ~withLogin
          THEN pc' = "kwLoop" /\ UNCHANGED <<loginCall, error>>
          ELSE IF ~hasCreds
          THEN /\ pc' = "loginReturned"
               /\ loginCall' = [creds |-> FALSE, navigated |-> FALSE,
                                returned |-> "false", failed |-> "none"]
               /\ UNCHANGED error
          ELSE IF outcome = "ok"
          THEN /\ pc' = "loginReturned"
               /\ loginCall' = [creds |-> TRUE, navigated |-> TRUE,
                                returned |-> "true", failed |-> "none"]
               /\ UNCHANGED error
          ELSE /\ pc' = LoginCatch
               /\ loginCall' = [creds |-> TRUE, navigated |-> TRUE,
                                returned |-> IF LoginCatch = "loginReturned"
                                             THEN "false" ELSE "none",
                                failed |-> outcome]
               /\ error' = (LoginCatch # "loginReturned")
    /\ UNCHANGED <<configVars, db, unitVars, browser, initStarted, closeCalls,
                   released, kw, pageVars, detailVars, raisedKw, saveVars>>

\* The driver drops the value login returned and goes on to the keywords.
LoginReturned ==
    /\ pc = "loginReturned"
    /\ loginCall' = NoLoginCall
    /\ pc' = "kwLoop"
    /\ UNCHANGED <<configVars, db, unitVars, browser, initStarted, closeCalls,
                   released, kw, pageVars, detailVars, error, raisedKw, saveVars>>

\* The keyword loop (lines 202-208; one pass in runSingleScrape, line 138):
\* scrapeAndSave calls scrapeJobs, which starts from an empty allJobs.
KeywordLoop ==
    /\ pc = "kwLoop"
    /\ IF kw <= numKeywords
       THEN /\ allJobs' = <<>>
            /\ donePages' = <<>>
            /\ navPages' = <<>>
            /\ pageNum' = 1
            /\ pc' = "pageLoop"
       ELSE /\ pc' = "finally"
            /\ UNCHANGED <<allJobs, donePages, navPages, pageNum>>
    /\ UNCHANGED <<configVars, db, unitVars, browserVars, kw, jobs, cardIdx, pageFault,
                   endReason, attempted, detailVars, error, raisedKw, saveVars>>

\* ----------------------------------------------------------------------
\* scrapeJobs: one page iteration
\* ----------------------------------------------------------------------

\* Head of the for loop and page.goto of the search URL.
Navigate ==
    /\ pc = "pageLoop"
    /\ IF PageLoopContinues(pageNum, maxPages)
       THEN /\ navPages' = Append(navPages, pageNum)
            /\ attempted' = IF pageNum = 1 THEN attempted \cup {kw} ELSE attempted
            /\ \E ok \in BOOLEAN :
                  IF ok THEN pc' = "waitCards" /\ UNCHANGED pageFault
                  ELSE pc' = "pageCatch" /\ pageFault' = "nav"
            /\ UNCHANGED endReason
       ELSE /\ endReason' = "cap"
            /\ pc' = "scrapeReturn"
            /\ UNCHANGED <<navPages, attempted, pageFault>>
    /\ UNCHANGED <<configVars, db, unitVars, browserVars, kw, pageNum, allJobs, jobs, cardIdx,
                   donePages, detailVars, error, raisedKw, saveVars>>

\* page.waitForSelector for a listing card, inside its own try/catch.
WaitCards ==
    /\ pc = "waitCards"
    /\ \E found \in BOOLEAN :
          IF found THEN pc' = "extract" /\ UNCHANGED endReason
          ELSE pc' = NoCardsTarget /\ endReason' = "noContent"
    /\ UNCHANGED <<configVars, db, unitVars, browserVars, kw, pageNum, allJobs, jobs, cardIdx,
                   pageFault, navPages, attempted, donePages, detailVars, error, raisedKw,
                   saveVars>>

\* extractJobCards: page.evaluate may reject; otherwise it returns the cards
\* that passed the gate, and an empty result ends the pagination.
Extract ==
    /\ pc = "extract"
    /\ \/ /\ pageFault' = "extract"
          /\ pc' = "pageCatch"
          /\ UNCHANGED <<jobs, cardIdx, endReason>>
       \/ \E js \in PageResults(MaxCards) :
             /\ jobs' = js
             /\ cardIdx' = 1
             /\ IF Len(js) = 0
                THEN pc' = ZeroCardsTarget /\ endReason' = "zeroCards"
                ELSE pc' = (IF shouldScrapeDetails THEN "detailOpen" ELSE "plain")
                     /\ UNCHANGED endReason
             /\ UNCHANGED pageFault
    /\ UNCHANGED <<configVars, db, unitVars, browserVars, kw, pageNum, allJobs, navPages, attempted,
                   donePages, detailVars, error, raisedKw, saveVars>>

\* The loop of the branch without detail scraping (lines 592-601).
EnrichPlain ==
    /\ pc = "plain"
    /\ jobs' = [k \in 1..Len(jobs) |-> PlainDetails(jobs[k], configSkills)]
    /\ pc' = "pageEnd"
    /\ UNCHANGED <<configVars, db, unitVars, browserVars, kw, pageNum, allJobs, cardIdx,
                   pageFault, endReason, navPages, attempted, donePages, detailVars, error,
                   raisedKw, saveVars>>

\* scrapeJobDetails, first step: details starts at the defaults and
\* this.browser.newPage() opens the detail page.
DetailOpen ==
    /\ pc = "detailOpen"
    /\ details' = DefaultDetails
    /\ \E ok \in BOOLEAN :
          IF ok
          THEN /\ detailPage' = "open"
               /\ pc' = "detailVisit"
               /\ UNCHANGED detailFault
          ELSE /\ detailFault' = "open"
               /\ pc' = DetailCatchTarget
               /\ UNCHANGED detailPage
    /\ UNCHANGED <<configVars, db, unitVars, browserVars, kw, pageVars, pageDetails,
                   leakedPages, error, raisedKw, saveVars>>

\* scrapeJobDetails, lines 332-495: user agent, viewport, goto, settle delay,
\* evaluate, Object.assign(details, pageDetails). A rejection of any of the
\* awaited calls jumps to the catch with the page still open.
DetailVisit ==
    /\ pc = "detailVisit"
    /\ \/ /\ pageDetails' = PageDetailsOf(jobs[cardIdx].jobUrl)
          /\ details' = PageDetailsOf(jobs[cardIdx].jobUrl)
          /\ pc' = "detailClose"
          /\ UNCHANGED detailFault
       \/ /\ detailFault' = "visit"
          /\ pc' = DetailCatchTarget
          /\ UNCHANGED <<details, pageDetails>>
    /\ UNCHANGED <<configVars, db, unitVars, browserVars, kw, pageVars, detailPage,
                   leakedPages, error, raisedKw, saveVars>>

\* scrapeJobDetails, line 497: detailPage.close(). When it rejects the page
\* may or may not have gone away.
DetailClose ==
    /\ pc = "detailClose"
    /\ \/ /\ detailPage' = "closed"
          /\ pc' = "merge"
          /\ UNCHANGED detailFault
       \/ /\ detailFault' = "close"
          /\ detailPage' \in {"open", "closed"}
          /\ pc' = DetailCatchTarget
    /\ UNCHANGED <<configVars, db, unitVars, browserVars, kw, pageVars, details, pageDetails,
                   leakedPages, error, raisedKw, saveVars>>

\* scrapeJobDetails has returned details: merge it into the card and go on
\* to the next card (lines 570-589); the locals of the call go out of scope.
Merge ==
    /\ pc = "merge"
    /\ jobs' = [jobs EXCEPT ![cardIdx] =
                    EnrichCard(jobs[cardIdx], details, configSkills)]
    /\ detailFault' = "none"
    /\ IF MoreCards(cardIdx, Len(jobs))
       THEN cardIdx' = cardIdx + 1 /\ pc' = "detailOpen"
       ELSE pc' = "pageEnd" /\ UNCHANGED cardIdx
    /\ details' = DefaultDetails
    /\ pageDetails' = DefaultDetails
    /\ detailPage' = "none"
    /\ leakedPages' = IF detailPage = "open"
                      THEN Min(leakedPages + 1, MaxLeakedTracked)
                      ELSE leakedPages
    /\ UNCHANGED <<configVars, db, unitVars, browserVars, kw, pageNum, allJobs, pageFault,
                   endReason, navPages, attempted, donePages, error, raisedKw, saveVars>>

\* allJobs.push(...jobs), the inter-page delay and pageNum++ (lines 604-610):
\* the records stay in allJobs, nothing is written. The first variant writes
\* the records of the page to the collection as well.
PageEnd_WritesPage ==
    /\ pc = "pageEnd"
    /\ allJobs' = allJobs \o jobs
    /\ donePages' = Append(donePages, jobs)
    /\ pageNum' = pageNum + 1
    /\ jobs' = <<>>
    /\ cardIdx' = 1
    /\ pc' = "pageLoop"
    /\ store' = UpsertAll(store, jobs)
    /\ lastWritten' =
           [u \in Urls |->
               IF \E k \in 1..Len(jobs) : jobs[k].jobUrl = u
               THEN jobs[CHOOSE k \in 1..Len(jobs) :
                             /\ jobs[k].jobUrl = u
                             /\ \A m \in (k + 1)..Len(jobs) : jobs[m].jobUrl # u]
               ELSE lastWritten[u]]
    /\ UNCHANGED <<configVars, db, unitVars, browserVars, kw, pageFault, endReason, navPages, attempted,
                   detailVars, error, raisedKw, saveIdx, savedCount, duplicateCount,
                   matchedCount, conflicts, results, inserted, updated>>
PageEnd ==
    /\ pc = "pageEnd"
    /\ allJobs' = allJobs \o jobs
    /\ donePages' = Append(donePages, jobs)
    /\ pageNum' = pageNum + 1
    /\ jobs' = <<>>
    /\ cardIdx' = 1
    /\ pc' = "pageLoop"
    /\ UNCHANGED <<configVars, db, unitVars, browserVars, kw, pageFault, endReason, navPages, attempted,
                   detailVars, error, raisedKw, saveVars>>

\* The catch of the page iteration (lines 612-620).
PageCatch ==
    /\ pc = "pageCatch"
    /\ IF CatchPageError(pageNum) = "throw"
       THEN /\ pc' = "scrapeRaised"
            /\ error' = TRUE
            /\ raisedKw' = kw
            /\ UNCHANGED endReason
       ELSE /\ pc' = "scrapeReturn"
            /\ endReason' = "fault"
            /\ UNCHANGED <<error, raisedKw>>
    /\ UNCHANGED <<configVars, db, unitVars, browserVars, kw, pageNum, allJobs, jobs, cardIdx,
                   pageFault, navPages, attempted, donePages, detailVars, saveVars>>

\* ----------------------------------------------------------------------
\* scrapeAndSave and the rest of the drivers
\* ----------------------------------------------------------------------

\* scrapeJobs threw: neither scrapeAndSave (line 67) nor the keyword loop
\* (line 208) catches, so control reaches the finally block of the driver.
\* (Variant without the finally block: the error leaves the driver at once.)
PropagateScrapeError_NoFinally ==
    /\ pc = "scrapeRaised"
    /\ pc' = "commandCatch"
    /\ UNCHANGED <<configVars, db, unitVars, browserVars, kw, pageVars, detailVars, error,
                   raisedKw, saveVars>>
PropagateScrapeError ==
    /\ pc = "scrapeRaised"
    /\ pc' = "finally"
    /\ UNCHANGED <<configVars, db, unitVars, browserVars, kw, pageVars, detailVars, error,
                   raisedKw, saveVars>>

\* scrapeJobs returned allJobs to scrapeAndSave (lines 73-83); the other
\* locals of scrapeJobs are gone.
ScrapeReturn ==
    /\ pc = "scrapeReturn"
    /\ endReason' = "none"
    /\ pageFault' = "none"
    /\ pageNum' = 1
    /\ navPages' = <<>>
    /\ donePages' = <<>>
    /\ inserted' = 0
    /\ updated' = 0
    /\ conflicts' = 0
    /\ IF Len(allJobs) = 0
       THEN /\ results' = NoResults
            /\ pc' = "kwEnd"
            /\ UNCHANGED <<saveIdx, savedCount, duplicateCount, matchedCount>>
       ELSE /\ saveIdx' = 1
            /\ savedCount' = 0
            /\ duplicateCount' = 0
            /\ matchedCount' = 0
            /\ pc' = "save"
            /\ UNCHANGED results
    /\ UNCHANGED <<configVars, db, unitVars, browserVars, kw, allJobs, jobs, cardIdx,
                   attempted, detailVars, error, raisedKw, store, lastWritten>>

\* The catch of one write (lines 104-110): a duplicate-key conflict is
\* counted as a duplicate, any other error is logged; the first variant only
\* logs.
SaveCatch_LogOnly(outcome) == "logged"
SaveCatch_AllDuplicates(outcome) == "duplicate"
SaveCatch(outcome) == IF outcome = "dupKey" THEN "duplicate" ELSE "logged"

\* One pass of the for..of loop of scrapeAndSave (lines 85-111). The write
\* succeeds, or rejects with a duplicate-key conflict (code 11000), or
\* rejects with another error; a rejected write leaves the collection alone.
SaveJob ==
    /\ pc = "save"
    /\ saveIdx <= Len(allJobs)
    /\ LET job == allJobs[saveIdx]
           existed == FindIdx(store, job.jobUrl) # 0
       IN /\ matchedCount' = IF Len(job.matchedSkills) > 0
                             THEN matchedCount + 1 ELSE matchedCount
          /\ \E outcome \in {"ok", "dupKey", "otherError"} :
             /\ IF outcome = "ok"
                THEN /\ store' = Upsert(store, job)
                     /\ lastWritten' = [lastWritten EXCEPT ![job.jobUrl] = job]
                     /\ inserted' = IF existed THEN inserted ELSE inserted + 1
                     /\ updated' = IF existed THEN updated + 1 ELSE updated
                ELSE UNCHANGED <<store, lastWritten, inserted, updated>>
             /\ conflicts' = IF outcome = "dupKey" THEN conflicts + 1 ELSE conflicts
             /\ savedCount' =
                   IF outcome = "ok" /\ ResultIsNew(existed) # FALSE
                   THEN savedCount + 1 ELSE savedCount
             /\ duplicateCount' =
                   IF \/ outcome = "ok" /\ ResultIsNew(existed) = FALSE
                      \/ outcome # "ok" /\ SaveCatch(outcome) = "duplicate"
                   THEN duplicateCount + 1 ELSE duplicateCount
    /\ saveIdx' = saveIdx + 1
    /\ UNCHANGED <<configVars, db, unitVars, browserVars, kw, pageVars, detailVars, error,
                   raisedKw, results, pc>>

\* The return of scrapeAndSave (line 113).
SaveReturn ==
    /\ pc = "save"
    /\ saveIdx > Len(allJobs)
    /\ results' = [found |-> Len(allJobs), saved |-> savedCount,
                   duplicates |-> duplicateCount, matched |-> matchedCount]
    /\ pc' = "kwEnd"
    /\ UNCHANGED <<configVars, db, unitVars, browserVars, kw, pageVars, detailVars, error,
                   raisedKw, store, saveIdx, savedCount, duplicateCount,
                   matchedCount, conflicts, inserted, updated, lastWritten>>

\* End of one pass of the keyword loop (lines 210-219): the locals of the
\* pass (results, and the locals of scrapeAndSave and scrapeJobs it came
\* from) go out of scope.
KeywordEnd ==
    /\ pc = "kwEnd"
    /\ kw' = kw + 1
    /\ pc' = "kwLoop"
    /\ allJobs' = <<>>
    /\ donePages' = <<>>
    /\ jobs' = <<>>
    /\ cardIdx' = 1
    /\ pageNum' = 1
    /\ saveIdx' = 1
    /\ savedCount' = 0
    /\ duplicateCount' = 0
    /\ matchedCount' = 0
    /\ conflicts' = 0
    /\ inserted' = 0
    /\ updated' = 0
    /\ results' = NoResults
    /\ UNCHANGED <<configVars, db, unitVars, browserVars, pageFault, endReason, navPages, attempted,
                   detailVars, error, raisedKw, store, lastWritten>>

\* if (this.browser) of closeBrowser (line 118); the first variant closes
\* without looking.
CloseGuard_Always(b) == TRUE
CloseGuard(b) == b # "null"

\* closeBrowser (lines 117-122): this.browser.close() runs only when
\* this.browser is set, and may reject. this.browser keeps the closed
\* browser afterwards, so a later call closes it again, which releases
\* nothing and resolves or rejects. Without the guard, close() on null is a
\* TypeError.
CloseBrowser ==
    /\ closeCalls' = closeCalls + 1
    /\ IF ~CloseGuard(browser)
       THEN UNCHANGED <<browser, released, error>>
       ELSE IF browser = "null"
       THEN error' = TRUE /\ UNCHANGED <<browser, released>>
       ELSE \E ok \in BOOLEAN :
               /\ browser' = IF ok THEN "closed" ELSE browser
               /\ released' = IF ok /\ browser = "open" THEN released + 1 ELSE released
               /\ error' = (error \/ ~ok)

\* The finally block of the driver: scraper.closeBrowser(). The driver then
\* returns to the command, or rejects with the error on its way or with the
\* one of closeBrowser.
Finally ==
    /\ pc = "finally"
    /\ CloseBrowser
    /\ pc' = IF error' THEN "commandCatch" ELSE "commandFinally"
    /\ UNCHANGED <<configVars, db, unitVars, initStarted, loginCall, kw, pageVars,
                   detailVars, raisedKw, saveVars>>

\* The body of the commands list and stats: listJobs (lines 246-303) awaits
\* Job.find and showStats (lines 308-318) awaits Job.getStats; the query
\* resolves or rejects, and neither function catches.
Query ==
    /\ pc = "start"
    /\ mode \in {"list", "stats"}
    /\ \E resolved \in BOOLEAN :
          /\ error' = ~resolved
          /\ pc' = IF resolved THEN "commandFinally" ELSE "commandCatch"
    /\ UNCHANGED <<configVars, db, unitVars, browserVars, kw, pageVars, detailVars,
                   raisedKw, saveVars>>

\* The catch block of a command (run: lines 336-338): the error is printed
\* and process.exit(1) ends the process there; the finally block of the
\* command does not run.
CommandCatch ==
    /\ pc = "commandCatch"
    /\ pc' = "exit"
    /\ UNCHANGED <<configVars, db, unitVars, browserVars, kw, pageVars, detailVars,
                   error, raisedKw, saveVars>>

\* The finally block of a command (run: lines 339-341): closeDB awaits
\* mongoose.connection.close() and logs its rejection (database.js lines
\* 38-45).
CommandFinally ==
    /\ pc = "commandFinally"
    /\ \E closed \in BOOLEAN : db' = IF closed THEN "closed" ELSE "closeFailed"
    /\ pc' = "exit"
    /\ UNCHANGED <<configVars, unitVars, browserVars, kw, pageVars, detailVars,
                   error, raisedKw, saveVars>>

Next ==
    \/ ConnectDB
    \/ Start
    \/ InitBrowser
    \/ Login
    \/ LoginReturned
    \/ KeywordLoop
    \/ Navigate
    \/ WaitCards
    \/ Extract
    \/ EnrichPlain
    \/ DetailOpen
    \/ DetailVisit
    \/ DetailClose
    \/ Merge
    \/ PageEnd
    \/ PageCatch
    \/ PropagateScrapeError
    \/ ScrapeReturn
    \/ SaveJob
    \/ SaveReturn
    \/ KeywordEnd
    \/ Finally
    \/ Query
    \/ CommandCatch
    \/ CommandFinally

Spec == Init /\ [][Next]_vars

\* The program is one thread of control and every awaited call is bounded
\* by a timeout, so an enabled step is eventually taken.
FairSpec == Spec /\ WF_vars(Next)

\* ----------------------------------------------------------------------
\* The functions of the scraper applied on their own
\* ----------------------------------------------------------------------
RECURSIVE SeqsUpTo(_, _)
SeqsUpTo(S, n) ==
    IF n = 0 THEN { <<>> }
    ELSE SeqsUpTo(S, n - 1)
             \cup { Append(q, x) : q \in { r \in SeqsUpTo(S, n - 1) : Len(r) = n - 1 }, x \in S }

\* Skill texts handed to matchSkills: they differ in case, in surrounding
\* blanks, by containment in one another, or not at all; one is blank.
SkillInputs ==
    { JS, <<"j", "s">>, <<" ", "J", "S", " ">>, <<"J">>, Go, <<" ">> }

\* Keywords handed to buildSearchUrl: plain, with one blank, with a run of
\* blanks, with a reserved character, with a leading blank.
KeywordInputs ==
    { Keyword, <<"J", " ", "s">>, <<"J", " ", " ", "s">>, <<"J", "+">>, <<" ", "J">> }

ExperienceInputs ==
    { NoExperience }
        \cup [isNull : {FALSE}, min : {Undef, Def(0), Def(2)},
              max : {Undef, Def(0), Def(5)}]

\* Listing cards handed to extractJobCards: each essential element is
\* missing, blank or filled; the other elements are all there or all missing.
CardInputs ==
    { [title |-> t, link |-> l, company |-> c,
       location |-> o, experience |-> o, salary |-> o,
       skills |-> IF o.present THEN <<<<" ", "J", "S">>, <<" ">>>> ELSE <<>>,
       description |-> o, postedDate |-> o] :
        t \in {NoElement, El(<<" ">>), El(<<" ", "Developer">>)},
        c \in {NoElement, El(<<>>), El(T("Acme"))},
        l \in {"", "u1"},
        o \in {NoElement, El(T("text"))} }

\* Label pairs of a detail page: a vacancy label with a number, an openings
\* label with a number inside other text, a vacancy label without a number,
\* another label with a number.
LabelPairInputs ==
    { [label |-> <<"V", "a", "c", "a", "n", "c", "y">>, value |-> <<"2">>],
      [label |-> <<" ", "N", "o", " ", "o", "f", " ", "O", "p", "e", "n", "i", "n", "g", "s", " ">>, value |-> <<"u", "p", "t", "o", " ", "1", "4", " ", "p", "o", "s", "t", "s">>],
      [label |-> <<"v", "a", "c", "a", "n", "c", "y">>, value |-> <<"m", "a", "n", "y">>],
      [label |-> <<"r", "o", "l", "e">>, value |-> <<"7">>] }

\* Texts of the spans and divs of a detail page: "N openings" in lower and
\* in upper case, singular and without the blank, the word before the
\* number, a text of more than 30 characters, a text without the word.
LongText == [i \in 1..25 |-> "x"]

NodeInputs ==
    { <<" ", "5", " ", "o", "p", "e", "n", "i", "n", "g", "s", " ">>,
      <<"1", "2", " ", "O", "p", "e", "n", "i", "n", "g", "s">>,
      <<"o", "p", "e", "n", "i", "n", "g", "s", ":", " ", "6">>,
      LongText \o <<" ", "9", " ", "o", "p", "e", "n", "i", "n", "g", "s">>,
      <<"3", "o", "p", "e", "n", "i", "n", "g", " ", "4">> }

\* What one selector of skillSelectors can match on a detail page: nothing,
\* one element without text, skills with a repetition, one skill, an
\* over-long text before a skill, an element without text before a skill.
OverLongText == [i \in 1..100 |-> "x"]

SkillGroupInputs ==
    { <<>>,
      << <<" ">> >>,
      << Go, <<" ", "G", "o">>, JS, Go >>,
      << JS >>,
      << OverLongText, Go >>,
      << <<>>, JS >> }

\* One call of one function: the arguments are drawn here, the scraper
\* object of a closeBrowser call is fresh, failed to launch, or launched.
FunctionInit ==
    /\ mode = "single"
    /\ numKeywords = 1
    /\ maxPages = 1
    /\ shouldScrapeDetails = FALSE
    /\ configSkills = <<>>
    /\ mongoUri = "set"
    /\ pc = "call"
    /\ Idle
    /\ ret = <<>>
    /\ fn \in {"matchSkills", "buildSearchUrl", "extractJobCards", "closeBrowser",
              "scrapeJobsExperience", "totalVacancy", "keySkills"}
    /\ browser \in (IF fn = "closeBrowser" THEN {"null", "open"} ELSE {"null"})
    /\ initStarted \in (IF fn # "closeBrowser" THEN {FALSE}
                        ELSE IF browser = "open" THEN {TRUE} ELSE BOOLEAN)
    /\ args \in
         CASE fn = "matchSkills" ->
                [jobSkills : SeqsUpTo(SkillInputs, MaxJobSkills),
                 configSkills : SeqsUpTo(SkillInputs, MaxConfigSkills)]
           [] fn = "buildSearchUrl" ->
                [keyword : KeywordInputs, pageNum : 1..MaxPages,
                 experience : ExperienceInputs]
           [] fn = "extractJobCards" ->
                [cards : SeqsUpTo(CardInputs, MaxCards), keyword : {Keyword}]
           [] fn = "scrapeJobsExperience" ->
                [keyword : {Keyword}, pageNum : 1..MaxPages,
                 experience : ExperienceInputs]
           [] fn = "totalVacancy" ->
                [labels : SeqsUpTo(LabelPairInputs, MaxLabels),
                 nodes : SeqsUpTo(NodeInputs, MaxNodes)]
           [] fn = "keySkills" ->
                [groups : SeqsUpTo(SkillGroupInputs, MaxSelectorGroups)]
           [] OTHER -> {NoArgs}

ApplyMatchSkills ==
    /\ pc = "call" /\ fn = "matchSkills"
    /\ ret' = matchSkills(args.jobSkills, args.configSkills)
    /\ pc' = "returned"
    /\ UNCHANGED <<configVars, db, fn, args, browserVars, kw, pageVars, detailVars,
                   error, raisedKw, saveVars>>

ApplyBuildSearchUrl ==
    /\ pc = "call" /\ fn = "buildSearchUrl"
    /\ ret' = buildSearchUrl(args.keyword, args.pageNum, args.experience)
    /\ pc' = "returned"
    /\ UNCHANGED <<configVars, db, fn, args, browserVars, kw, pageVars, detailVars,
                   error, raisedKw, saveVars>>

ApplyExtractJobCards ==
    /\ pc = "call" /\ fn = "extractJobCards"
    /\ ret' = ExtractJobCards(args.cards, args.keyword)
    /\ pc' = "returned"
    /\ UNCHANGED <<configVars, db, fn, args, browserVars, kw, pageVars, detailVars,
                   error, raisedKw, saveVars>>

ApplyScrapeJobsExperience ==
    /\ pc = "call" /\ fn = "scrapeJobsExperience"
    /\ ret' = ScrapeJobsExperience(args.keyword, args.pageNum, args.experience)
    /\ pc' = "returned"
    /\ UNCHANGED <<configVars, db, fn, args, browserVars, kw, pageVars, detailVars,
                   error, raisedKw, saveVars>>

ApplyTotalVacancy ==
    /\ pc = "call" /\ fn = "totalVacancy"
    /\ ret' = TotalVacancy(args.labels, args.nodes)
    /\ pc' = "returned"
    /\ UNCHANGED <<configVars, db, fn, args, browserVars, kw, pageVars, detailVars,
                   error, raisedKw, saveVars>>

ApplyKeySkills ==
    /\ pc = "call" /\ fn = "keySkills"
    /\ ret' = KeySkills(args.groups)
    /\ pc' = "returned"
    /\ UNCHANGED <<configVars, db, fn, args, browserVars, kw, pageVars, detailVars,
                   error, raisedKw, saveVars>>

\* closeBrowser called again and again on the same scraper object.
CallCloseBrowser ==
    /\ pc = "call" /\ fn = "closeBrowser"
    /\ closeCalls < MaxCloseCalls
    /\ CloseBrowser
    /\ UNCHANGED <<configVars, db, unitVars, pc, initStarted, loginCall, kw, pageVars,
                   detailVars, raisedKw, saveVars>>

FunctionNext ==
    \/ ApplyMatchSkills
    \/ ApplyBuildSearchUrl
    \/ ApplyExtractJobCards
    \/ CallCloseBrowser
    \/ ApplyScrapeJobsExperience
    \/ ApplyTotalVacancy
    \/ ApplyKeySkills

FunctionSpec == FunctionInit /\ [][FunctionNext]_vars

\* ----------------------------------------------------------------------
\* Properties
\* ----------------------------------------------------------------------

\* The pages navigated for the current keyword are 1, 2, ..., in this order.
NavInOrder == navPages = [k \in 1..Len(navPages) |-> k]

\* allJobs is exactly the records of the pages before the current one.
HoldsEarlierPages ==
    /\ allJobs = Flatten(donePages)
    /\ Len(donePages) = pageNum - 1

\* C1: in a multi-keyword run, when scrapeJobs of keyword i
\* raises on its first page, every later keyword i+1..n is still attempted:
\* by the time runFromConfig exits its page-1 navigation was issued.
C1_LaterKeywordsAttempted ==
    (pc = "exit" /\ raisedKw # 0) =>
        \A j \in (raisedKw + 1)..numKeywords : j \in attempted

\* C2: on every execution of runFromConfig or runSingleScrape in which
\* initBrowser was started, closeBrowser is invoked before the function
\* exits, and the function does exit.
C2_CloseBrowserOnEveryExit ==
    /\ []((pc = "exit" /\ initStarted) => closeCalls >= 1)
    /\ <>(pc = "exit")

C2_Witness ==
    /\ pc = "exit"
    /\ mode = "single"
    /\ initStarted
    /\ raisedKw = 1
    /\ pageFault = "nav"
    /\ closeCalls = 1
    /\ browser = "closed"

\* C3: every detail page opened by scrapeJobDetails is closed by the time
\* scrapeJobDetails returns, so no detail page stays open between two
\* enrichments.
C3_DetailPageClosedOnReturn ==
    /\ pc = "merge" => detailPage # "open"
    /\ leakedPages = 0

\* C4 (as stated): on any fault, the close of the page included,
\* scrapeJobDetails returns the all-default JobDetail.
C4_AnyFaultReturnsDefaults ==
    (pc = "merge" /\ detailFault # "none") => details = DefaultDetails

\* C4 (amended): scrapeJobDetails never propagates an exception; a fault
\* before the extraction is merged (opening, navigation, settle delay,
\* evaluation) returns the all-default JobDetail, a fault of the close
\* returns the details already extracted; the loop of scrapeJobs goes on to
\* the next card.
C4_FaultIsSwallowed ==
    /\ [](/\ detailFault # "none" => pc = "merge"
          /\ (pc = "merge" /\ detailFault \in {"open", "visit"}) =>
                 details = DefaultDetails
          /\ (pc = "merge" /\ detailFault = "close") => details = pageDetails)
    /\ [][(pc = "merge" /\ detailFault # "none" /\ cardIdx < Len(jobs)) =>
             (pc' = "detailOpen" /\ cardIdx' = cardIdx + 1)]_vars

C4_Witness ==
    /\ pc = "merge"
    /\ detailFault = "close"
    /\ details = pageDetails
    /\ details # DefaultDetails

\* C5: a fault of the page iteration raises on page 1; on a page n >= 2 it
\* raises nothing and scrapeJobs returns exactly the records of pages 1..n-1.
C5_FaultRaisesOnlyOnPageOne ==
    /\ pc = "scrapeRaised" => (pageNum = 1 /\ pageFault # "none" /\ error)
    /\ (pageFault # "none" /\ pageNum = 1) =>
           pc \in {"pageCatch", "scrapeRaised", "finally", "commandCatch", "exit"}
    /\ (pc = "scrapeReturn" /\ pageFault # "none") =>
           /\ endReason = "fault"
           /\ pageNum >= 2
           /\ ~error
           /\ HoldsEarlierPages

C5_Witness ==
    /\ pc = "scrapeReturn"
    /\ endReason = "fault"
    /\ pageFault = "nav"
    /\ pageNum = 2
    /\ Len(allJobs) = 2

\* C6: when no listing card appears within the wait on a page, page 1
\* included, scrapeJobs raises nothing, navigates to no further page and
\* returns the records accumulated so far (none on page 1).
C6_NoContentEndsQuietly ==
    endReason = "noContent" =>
        /\ pc = "scrapeReturn"
        /\ ~error
        /\ HoldsEarlierPages
        /\ Len(navPages) = pageNum
        /\ pageNum = 1 => allJobs = <<>>

C6_Witness ==
    /\ pc = "scrapeReturn"
    /\ endReason = "noContent"
    /\ pageNum = 1
    /\ allJobs = <<>>

\* C7: when extraction yields zero cards scrapeJobs stops paginating
\* without error and returns only the records of the earlier pages; a page
\* with zero cards never reaches the push.
C7_ZeroCardsEndsQuietly ==
    /\ endReason = "zeroCards" =>
           /\ pc = "scrapeReturn"
           /\ ~error
           /\ HoldsEarlierPages
           /\ Len(navPages) = pageNum
    /\ pc = "pageEnd" => Len(jobs) > 0

C7_Witness ==
    /\ pc = "scrapeReturn"
    /\ endReason = "zeroCards"
    /\ maxPages = 2
    /\ pageNum = 2
    /\ Len(donePages[1]) = MaxCards
    /\ Len(allJobs) = MaxCards

\* C8: the pagination loop of every keyword terminates; it navigates to
\* pages 1, 2, ... in increasing order and never above maxPages, and it has
\* ended when the cap is reached, no content is found, zero cards are
\* extracted or a page >= 2 faults.
C8_PaginationTerminates ==
    /\ [](/\ NavInOrder
          /\ Len(navPages) <= maxPages
          /\ pc \in {"waitCards", "extract", "plain", "detailOpen",
                     "detailVisit", "detailClose", "merge", "pageEnd",
                     "pageCatch"} => Len(navPages) = pageNum
          /\ pc = "scrapeReturn" =>
                 /\ endReason \in {"cap", "noContent", "zeroCards", "fault"}
                 /\ endReason = "cap" => Len(navPages) = maxPages)
    /\ (pc = "pageLoop") ~> (pc \in {"scrapeReturn", "scrapeRaised"})

C8_Witness ==
    /\ pc = "scrapeReturn"
    /\ endReason = "cap"
    /\ navPages = <<1, 2>>
    /\ kw = 2

\* Number of documents of the collection with the jobUrl u.
DocsWithUrl(u) == Cardinality({ k \in 1..Len(store) : store[k].jobUrl = u })

\* C9: after any sequence of scrapeAndSave calls the store holds at most
\* one record per jobUrl, and that record equals the most recent scraped
\* record written for that jobUrl.
C9_OneRecordPerUrlLatestWins ==
    \A u \in Urls :
        /\ DocsWithUrl(u) <= 1
        /\ lastWritten[u] = NoDoc => DocsWithUrl(u) = 0
        /\ lastWritten[u] # NoDoc =>
               \E k \in 1..Len(store) : store[k] = lastWritten[u]

C9_Witness ==
    /\ pc = "save"
    /\ Len(allJobs) = 2
    /\ saveIdx = 3
    /\ allJobs[1].jobUrl = allJobs[2].jobUrl
    /\ allJobs[1] # allJobs[2]
    /\ inserted = 1
    /\ updated = 1
    /\ store = <<allJobs[2]>>

\* C10: for each scrapeAndSave call, found is the number of records
\* scrapeJobs returned, saved is the number of records whose jobUrl was
\* absent from the store when written (inserted), and duplicates is the
\* number whose jobUrl was present (updated).
C10_CountsMatchWrites ==
    pc = "kwEnd" =>
        /\ results.found = Len(allJobs)
        /\ results.saved = inserted
        /\ (inserted + updated = Len(allJobs)) => results.duplicates = updated

\* C11: when a write is rejected with a duplicate-key conflict (code 11000)
\* scrapeAndSave adds one to the duplicates count, raises nothing and goes
\* on to the next record; the call returns only after every record of the
\* batch was handed to the store.
C11_ConflictCountedAndSkipped ==
    /\ [][conflicts' = conflicts + 1 =>
             /\ duplicateCount' = duplicateCount + 1
             /\ savedCount' = savedCount
             /\ error' = error
             /\ pc' = "save"
             /\ saveIdx' = saveIdx + 1
             /\ store' = store]_vars
    /\ [](conflicts > 0 => ~error /\ pc \in {"save", "kwEnd"})
    /\ []((pc = "kwEnd" /\ Len(allJobs) > 0) =>
             /\ saveIdx = Len(allJobs) + 1
             /\ results.duplicates >= conflicts)

C11_Witness ==
    /\ pc = "kwEnd"
    /\ Len(allJobs) = 2
    /\ conflicts = 1
    /\ inserted = 1
    /\ results.duplicates = 2
    /\ Len(store) = 1
    /\ store[1] = allJobs[2]

DetailFields ==
    {"fullDescription", "keySkills", "industryTypes", "jobPostedAt",
     "salaryOffered", "totalVacancy"}

ListingFields ==
    {"title", "company", "location", "experience", "salary", "skills",
     "description", "jobUrl", "postedDate", "searchKeyword", "scrapedAt"}

\* C12 (as stated): with detail scraping on, a card whose detail visit
\* faulted leaves the enrichment with all six detail fields at their
\* sentinel defaults.
C12_FaultedCardAllDefaults ==
    [][(pc = "merge" /\ detailFault # "none") =>
          \A f \in DetailFields : jobs'[cardIdx][f] = DefaultDetails[f]]_vars

\* C12 (amended): with detail scraping on, the enrichment of one card
\* changes no other card and drops none, and every card of the page reaches
\* the output. A card whose visit faulted before the close of its detail
\* page gets the sentinel defaults for fullDescription, industryTypes,
\* jobPostedAt, salaryOffered and totalVacancy, and its listing skills for
\* keySkills; a card whose visit did not fault, or faulted only in the close,
\* gets the values of its detail page (keySkills falling back to the listing
\* skills when the page has none).
C12_FaultedCardIsolated ==
    /\ [][pc = "merge" =>
             /\ Len(jobs') = Len(jobs)
             /\ \A k \in 1..Len(jobs) : k # cardIdx => jobs'[k] = jobs[k]
             /\ LET old == jobs[cardIdx]
                    new == jobs'[cardIdx]
                    page == PageDetailsOf(old.jobUrl)
                IN /\ \A f \in ListingFields : new[f] = old[f]
                   /\ detailFault \in {"open", "visit"} =>
                          /\ new.fullDescription = <<>>
                          /\ new.industryTypes = <<>>
                          /\ new.jobPostedAt = T("Not specified")
                          /\ new.salaryOffered = T("Not disclosed")
                          /\ new.totalVacancy = T("Not specified")
                          /\ new.keySkills = old.skills
                   /\ detailFault \in {"none", "close"} =>
                          /\ new.fullDescription = page.fullDescription
                          /\ new.industryTypes = page.industryTypes
                          /\ new.jobPostedAt = page.jobPostedAt
                          /\ new.salaryOffered = page.salaryOffered
                          /\ new.totalVacancy = page.totalVacancy
                          /\ new.keySkills = IF page.keySkills # <<>>
                                             THEN page.keySkills ELSE old.skills]_vars
    /\ [][pc = "pageEnd" => allJobs' = allJobs \o jobs]_vars
    /\ []((pc = "pageEnd" /\ shouldScrapeDetails) =>
             \A k \in 1..Len(jobs) : DetailFields \subseteq DOMAIN jobs[k])

C12_Witness ==
    /\ pc = "pageEnd"
    /\ shouldScrapeDetails
    /\ Len(jobs) = 2
    /\ jobs[1].jobUrl = "u1"
    /\ jobs[1].fullDescription = <<>>
    /\ jobs[1].keySkills = <<JS>>
    /\ jobs[2].jobUrl = "u2"
    /\ DetailFields \subseteq DOMAIN jobs[2]

\* t occurs in s: s is some text, then t, then some text.
Contains(s, t) ==
    \E a \in 0..Len(s) : \E b \in a..Len(s) : SubSeq(s, a + 1, b) = t

\* The job skill j matches the configured list: for some configured skill
\* c, lowercased and trimmed j contains lowercased and trimmed c, or the
\* other way round.
SkillMatches(j, configured) ==
    \E k \in 1..Len(configured) :
        \/ Contains(Trim(ToLowerCase(j)), Trim(ToLowerCase(configured[k])))
        \/ Contains(Trim(ToLowerCase(configured[k])), Trim(ToLowerCase(j)))

Elems(xs) == { xs[i] : i \in 1..Len(xs) }

\* The records that went through the enrichment: those of allJobs and the
\* cards of the current page already enriched.
EnrichedRecords ==
    Elems(allJobs) \cup { r \in Elems(jobs) : "matchedSkills" \in DOMAIN r }

Slug(keyword) == ReplaceWhitespaceRuns(ToLowerCase(keyword))

PageSuffix(page) == IF page > 1 THEN <<"-", ToString(page)>> ELSE <<>>

ExperienceParams(e) ==
    (IF ~e.isNull /\ e.min.defined
     THEN <<"&niyoMinExp=", ToString(e.min.value)>> ELSE <<>>)
        \o (IF ~e.isNull /\ e.max.defined
            THEN <<"&niyoMaxExp=", ToString(e.max.value)>> ELSE <<>>)

\* C15 (as stated): the URL is origin, "/", the slug as it stands, "-jobs",
\* the page suffix beyond page 1, "?k=", the encoded keyword and the
\* experience parameters.
C15_UrlWithPlainSlug ==
    (fn = "buildSearchUrl" /\ pc = "returned") =>
        ret = <<"https://www.naukri.com", "/">> \o Slug(args.keyword)
                  \o <<"-jobs">> \o PageSuffix(args.pageNum) \o <<"?k=">>
                  \o EncodeURIComponent(args.keyword)
                  \o ExperienceParams(args.experience)

\* C15 (amended): the same, with the slug percent-encoded like the keyword
\* of the query.
C15_UrlWithEncodedSlug ==
    (fn = "buildSearchUrl" /\ pc = "returned") =>
        /\ ret = <<"https://www.naukri.com", "/">>
                     \o EncodeURIComponent(Slug(args.keyword))
                     \o <<"-jobs">> \o PageSuffix(args.pageNum) \o <<"?k=">>
                     \o EncodeURIComponent(args.keyword)
                     \o ExperienceParams(args.experience)
        /\ args.experience.isNull => ExperienceParams(args.experience) = <<>>

C15_Witness ==
    /\ fn = "buildSearchUrl"
    /\ pc = "returned"
    /\ args.keyword = <<"J", " ", " ", "s">>
    /\ args.pageNum = 2
    /\ args.experience = [isNull |-> FALSE, min |-> Def(2), max |-> Def(5)]
    /\ ret = <<"https://www.naukri.com", "/", "j", "-", "s", "-jobs", "-", "2",
               "?k=", "J", "%", "2", "0", "%", "2", "0", "s",
               "&niyoMinExp=", "2", "&niyoMaxExp=", "5">>

\* The element is there and its text has a character that is not blank.
HasText(el) == el.present /\ \E i \in 1..Len(el.text) : el.text[i] # " "

\* The card has a title, a company and a URL.
HasEssentials(card) ==
    HasText(card.title) /\ HasText(card.company) /\ card.link # ""

\* C16: every record extractJobCards returns has a non-empty title, company
\* and jobUrl; the records returned are those of the cards that have all
\* three, whatever the other fields of a card hold.
C16_OnlyCardsWithEssentials ==
    (fn = "extractJobCards" /\ pc = "returned") =>
        /\ \A r \in Elems(ret) :
               /\ r.title \notin {<<>>, Undefined}
               /\ r.company \notin {<<>>, Undefined}
               /\ r.jobUrl # ""
        /\ Len(ret) = Cardinality({ i \in 1..Len(args.cards) :
                                        HasEssentials(args.cards[i]) })

C16_Witness ==
    /\ fn = "extractJobCards"
    /\ pc = "returned"
    /\ Len(args.cards) = 2
    /\ HasText(args.cards[1].title)
    /\ args.cards[1].link = "u1"
    /\ ~args.cards[1].company.present
    /\ args.cards[1].location.present
    /\ HasEssentials(args.cards[2])
    /\ ~args.cards[2].location.present
    /\ Len(ret) = 1
    /\ ret[1].location = T("Not specified")

\* The fields of a record of the output, and those holding one text.
AllFields == ListingFields \cup DetailFields \cup {"matchedSkills", "experienceFilter"}

TextFields ==
    {"title", "company", "location", "experience", "salary", "description",
     "postedDate", "searchKeyword", "scrapedAt", "fullDescription",
     "jobPostedAt", "salaryOffered", "totalVacancy", "experienceFilter"}

\* C17: every record scrapeJobs returns has all its fields, none of them
\* undefined, whether detail scraping was on, off, or faulted for it.
C17_EveryFieldDefined ==
    \A r \in Elems(allJobs) :
        /\ DOMAIN r = AllFields
        /\ \A f \in TextFields : r[f] # Undefined
        /\ r.jobUrl \in Urls

C17_Witness ==
    /\ pc = "scrapeReturn"
    /\ shouldScrapeDetails
    /\ Len(allJobs) = 2
    /\ allJobs[1].jobUrl = "u1"
    /\ allJobs[1].fullDescription = <<>>
    /\ allJobs[1].totalVacancy = T("Not specified")
    /\ allJobs[2].jobUrl = "u2"
    /\ allJobs[2].location = T("Not specified")
    /\ allJobs[2].salaryOffered = T("Not disclosed")

\* C18: login never raises. Without an email or a password it navigates
\* nowhere and returns false; when a step of the flow fails (navigation,
\* form lookup, wait for the post-login marker) it returns false; the driver
\* then goes on to the keywords.
C18_LoginNeverRaises ==
    /\ [](loginCall # NoLoginCall =>
             /\ pc = "loginReturned"
             /\ ~error
             /\ loginCall.returned \in {"true", "false"}
             /\ ~loginCall.creds =>
                    (~loginCall.navigated /\ loginCall.returned = "false")
             /\ loginCall.failed # "none" => loginCall.returned = "false")
    /\ [][pc = "login" => pc' \in {"loginReturned", "kwLoop"}]_vars
    /\ [][pc = "loginReturned" => (pc' = "kwLoop" /\ ~error')]_vars

C18_Witness ==
    /\ pc = "loginReturned"
    /\ mode = "config"
    /\ loginCall.creds
    /\ loginCall.navigated
    /\ loginCall.failed = "marker"
    /\ loginCall.returned = "false"
    /\ ~error

\* C19: closeBrowser on a scraper whose browser is null (never initialized,
\* or the launch failed) does nothing and raises nothing, however often it
\* is called; and the browser process is closed at most once, a call after
\* a successful close releasing nothing more.
C19_CloseBrowserSafeInEveryState ==
    fn = "closeBrowser" =>
        /\ browser = "null" => (~error /\ released = 0)
        /\ released <= 1
        /\ released = 1 <=> browser = "closed"

C19_Witness ==
    /\ fn = "closeBrowser"
    /\ closeCalls = 2
    /\ browser = "closed"
    /\ released = 1
    /\ ~error

\* C20: with no connection string the commands run and scrape end the
\* process in connectDB: the browser is never launched and no search page
\* is navigated.
C20_NoUriEndsBeforeScraping ==
    /\ [](mongoUri = "missing" =>
             /\ pc \in {"command", "exit"}
             /\ ~initStarted
             /\ browser = "null"
             /\ navPages = <<>>
             /\ attempted = {}
             /\ store = <<>>)
    /\ [][(pc = "command" /\ mongoUri = "missing") => (pc' = "exit" /\ error')]_vars

C20_Witness ==
    /\ mongoUri = "missing"
    /\ pc = "exit"
    /\ error
    /\ mode = "config"
    /\ numKeywords = 2
    /\ ~initStarted
    /\ attempted = {}

\* The card went through merge and skill matching.
IsEnriched(r) == DetailFields \cup {"matchedSkills", "experienceFilter"} \subseteq DOMAIN r

\* C21: with detail scraping on, the cards of a page are enriched one at a
\* time and in card order: while the detail visit of a card runs, every
\* card before it is fully enriched and no card after it is touched; a
\* card goes through detail visit, then merge of the detail fields, then
\* skill matching over the merged record, and only then does the visit of
\* the next card start.
C21_OneEnrichmentAtATime ==
    /\ [](/\ (detailPage # "none" \/ detailFault # "none") =>
                 pc \in {"detailVisit", "detailClose", "merge"}
          /\ pc \in {"detailOpen", "detailVisit", "detailClose", "merge"} =>
                 /\ shouldScrapeDetails
                 /\ cardIdx \in 1..Len(jobs)
                 /\ \A k \in 1..Len(jobs) : IsEnriched(jobs[k]) <=> k < cardIdx)
    /\ [][/\ pc = "detailOpen" => pc' \in {"detailVisit", "merge"}
          /\ pc = "detailVisit" => pc' \in {"detailClose", "merge"}
          /\ pc = "detailClose" => pc' = "merge"
          /\ pc = "merge" =>
                 /\ pc' \in {"detailOpen", "pageEnd"}
                 /\ pc' = "detailOpen" <=> cardIdx < Len(jobs)
                 /\ pc' = "detailOpen" => cardIdx' = cardIdx + 1
                 /\ IsEnriched(jobs'[cardIdx])
                 /\ jobs'[cardIdx].matchedSkills =
                        matchSkills(Distinct(jobs[cardIdx].skills
                                                 \o jobs'[cardIdx].keySkills),
                                    configSkills)]_vars

C21_Witness ==
    /\ pc = "detailVisit"
    /\ cardIdx = 2
    /\ configSkills = << <<"g", "o">> >>
    /\ jobs[1].jobUrl = "u1"
    /\ jobs[1].keySkills = <<Go>>
    /\ jobs[1].matchedSkills = <<Go>>
    /\ ~IsEnriched(jobs[2])
    /\ detailPage = "open"

\* C22 (as stated): the records of a page are written to the store before
\* the next page of the keyword is navigated.
C22_PageWrittenBeforeNextPage ==
    (pc = "waitCards" /\ pageNum >= 2) =>
        \A r \in Elems(allJobs) : FindIdx(store, r.jobUrl) # 0

\* C22 (amended): the records of a keyword are handed to the store once
\* per keyword, after the pagination loop has ended: nothing is written
\* while the pages are scraped, the save loop starts only from the return
\* of scrapeJobs, and it hands every record of every page of the keyword to
\* the store once, in the order of the list.
C22_WrittenOncePerKeyword ==
    /\ [][/\ store' # store =>
                 /\ pc = "save"
                 /\ store' = Upsert(store, allJobs[saveIdx])
          /\ (pc' = "save" /\ pc # "save") =>
                 /\ pc = "scrapeReturn"
                 /\ saveIdx' = 1
                 /\ allJobs' = allJobs
          /\ (pc = "save" /\ pc' = "save") =>
                 /\ saveIdx' = saveIdx + 1
                 /\ allJobs' = allJobs
          /\ (pc = "save" /\ pc' # "save") =>
                 /\ pc' = "kwEnd"
                 /\ saveIdx = Len(allJobs) + 1]_vars
    /\ [](pc = "save" => saveIdx \in 1..(Len(allJobs) + 1))

C22_Witness ==
    /\ pc = "save"
    /\ kw = 1
    /\ Len(allJobs) = 3
    /\ allJobs[3].jobUrl = "u2"
    /\ saveIdx = 4
    /\ Len(store) = 2
    /\ inserted = 2

\* The value that follows the parameter name in the URL, <<>> when the URL
\* does not have the parameter.
UrlParam(url, name) ==
    IF \E i \in 1..(Len(url) - 1) : url[i] = name
    THEN <<url[(CHOOSE i \in 1..(Len(url) - 1) : url[i] = name) + 1]>>
    ELSE <<>>

\* The bounds a label "<min>-<max> yrs" states: its minimum, and its maximum
\* unless it reads "any"; an empty label states none.
LabelMin(label) == IF label = <<>> THEN <<>> ELSE <<label[1]>>

LabelMax(label) == IF label = <<>> \/ label[3] = "any" THEN <<>> ELSE <<label[3]>>

\* C23: the experienceFilter label states exactly the experience bounds
\* sent in the search URL: the minimum of the label is the niyoMinExp of the
\* URL, the maximum of the label the niyoMaxExp, each present in the one if
\* and only if present in the other, bounds equal to 0 and filters with one
\* bound included; without an experience filter the label is empty and the
\* URL has neither parameter.
C23_LabelStatesUrlBounds ==
    (fn = "scrapeJobsExperience" /\ pc = "returned") =>
        /\ LabelMin(ret.experienceFilter) = UrlParam(ret.url, "&niyoMinExp=")
        /\ LabelMax(ret.experienceFilter) = UrlParam(ret.url, "&niyoMaxExp=")
        /\ args.experience.isNull =>
               /\ ret.experienceFilter = <<>>
               /\ UrlParam(ret.url, "&niyoMinExp=") = <<>>
               /\ UrlParam(ret.url, "&niyoMaxExp=") = <<>>

\* C24: with detail scraping off, scrapeJobs opens no detail page, and
\* every record it returns has matchedSkills = matchSkills(listing skills,
\* configured skills), keySkills = the listing skills, jobPostedAt and
\* salaryOffered from the listing, and the other detail fields at their
\* defaults.
C24_NoDetailPassStillMatches ==
    ~shouldScrapeDetails =>
        /\ detailPage = "none"
        /\ leakedPages = 0
        /\ details = DefaultDetails
        /\ pc \notin {"detailOpen", "detailVisit", "detailClose", "merge"}
        /\ \A r \in Elems(allJobs) :
               /\ r.matchedSkills = matchSkills(r.skills, configSkills)
               /\ r.keySkills = r.skills
               /\ r.fullDescription = <<>>
               /\ r.industryTypes = <<>>
               /\ r.jobPostedAt = r.postedDate
               /\ r.salaryOffered = r.salary
               /\ r.totalVacancy = T("Not specified")

C24_Witness ==
    /\ ~shouldScrapeDetails
    /\ pc = "scrapeReturn"
    /\ configSkills = << <<"j", "s">> >>
    /\ Len(allJobs) = 2
    /\ allJobs[1].jobUrl = "u1"
    /\ allJobs[1].matchedSkills = <<JS>>
    /\ allJobs[1].keySkills = <<JS>>
    /\ allJobs[1].salaryOffered = T("8-12 Lacs")
    /\ allJobs[2].jobUrl = "u2"
    /\ allJobs[2].matchedSkills = <<>>
    /\ allJobs[2].salaryOffered = T("Not disclosed")

\* t[i..j] is a whole run of digits.
IsDigitRun(t, i, j) ==
    /\ 1 <= i /\ i <= j /\ j <= Len(t)
    /\ \A k \in i..j : IsDigit(t[k])
    /\ i > 1 => ~IsDigit(t[i - 1])
    /\ j < Len(t) => ~IsDigit(t[j + 1])

\* The runs of digits of t that the word "opening" follows, blanks apart,
\* in any case of the letters.
NumbersOfOpenings(t) ==
    { h \in (1..Len(t)) \X (1..Len(t)) :
        /\ IsDigitRun(t, h[1], h[2])
        /\ \E m \in (h[2] + 1)..Len(t) :
               /\ \A k \in (h[2] + 1)..(m - 1) : t[k] = " "
               /\ SubSeq(ToLowerCase(t), m, m + 6) = OpeningWord }

\* A short text node stating "N openings", and the first N it states.
StatesOpenings(node) ==
    Len(Trim(node)) < 30 /\ NumbersOfOpenings(Trim(node)) # {}

OpeningsStated(node) ==
    LET t == Trim(node)
        h == CHOOSE h \in NumbersOfOpenings(t) :
                 \A g \in NumbersOfOpenings(t) : h[1] <= g[1]
    IN SubSeq(t, h[1], h[2])

\* A label pair naming a vacancy or an opening whose value has a number,
\* and the first number of that value.
StatesVacancy(pair) ==
    /\ \/ Contains(ToLowerCase(pair.label), VacancyWord)
       \/ Contains(ToLowerCase(pair.label), OpeningWord)
    /\ \E k \in 1..Len(pair.value) : IsDigit(pair.value[k])

VacancyStated(pair) ==
    LET t == pair.value
        i == CHOOSE i \in 1..Len(t) :
                 IsDigit(t[i]) /\ \A k \in 1..(i - 1) : ~IsDigit(t[k])
        j == CHOOSE j \in i..Len(t) : IsDigitRun(t, i, j)
    IN SubSeq(t, i, j)

Last(S) == CHOOSE i \in S : \A k \in S : k <= i

\* C25: totalVacancy is the N of the last short text node stating "N
\* openings" when there is one, whatever the label pairs gave; otherwise
\* the number of the last vacancy or openings label pair that has one;
\* otherwise 'Not specified'.
C25_OpeningsScanWinsOverLabelPairs ==
    (fn = "totalVacancy" /\ pc = "returned") =>
        LET nodeHits == { i \in 1..Len(args.nodes) : StatesOpenings(args.nodes[i]) }
            pairHits == { i \in 1..Len(args.labels) : StatesVacancy(args.labels[i]) }
        IN ret = IF nodeHits # {} THEN OpeningsStated(args.nodes[Last(nodeHits)])
                 ELSE IF pairHits # {} THEN VacancyStated(args.labels[Last(pairHits)])
                 ELSE T("Not specified")

C25_Witness ==
    /\ fn = "totalVacancy"
    /\ pc = "returned"
    /\ args.labels = << [label |-> <<"V", "a", "c", "a", "n", "c", "y">>, value |-> <<"2">>] >>
    /\ args.nodes = << <<" ", "5", " ", "o", "p", "e", "n", "i", "n", "g", "s", " ">>, <<"1", "2", " ", "O", "p", "e", "n", "i", "n", "g", "s">> >>
    /\ ret = <<"1", "2">>

\* The skill texts of a candidate group: the texts of its elements without
\* the surrounding blanks, the blank and the over-long ones left out.
SkillTextsOf(group) ==
    SelectSeq([i \in 1..Len(group) |-> Trim(group[i])],
              LAMBDA t : t # <<>> /\ Len(t) < 100)

\* xs without repetitions, in the order of xs.
IsDedupOf(ys, xs) ==
    /\ Elems(ys) = Elems(xs)
    /\ \A i, j \in 1..Len(ys) : i # j => ys[i] # ys[j]
    /\ \A i, j \in 1..Len(ys) :
           i < j => (CHOOSE a \in 1..Len(xs) : xs[a] = ys[i] /\ \A b \in 1..(a - 1) : xs[b] # ys[i])
                      < (CHOOSE a \in 1..Len(xs) : xs[a] = ys[j] /\ \A b \in 1..(a - 1) : xs[b] # ys[j])

\* C26: keySkills is the skill texts, without repetitions and in order, of
\* the first candidate group that yields at least one skill text; the
\* groups after it add nothing; and keySkills is empty only when no group
\* yields one.
C26_FirstYieldingGroupOnly ==
    (fn = "keySkills" /\ pc = "returned") =>
        LET yielding == { k \in 1..Len(args.groups) :
                              SkillTextsOf(args.groups[k]) # <<>> }
        IN /\ yielding = {} => ret = <<>>
           /\ yielding # {} =>
                  LET first == CHOOSE k \in yielding : \A m \in yielding : k <= m
                  IN /\ IsDedupOf(ret, SkillTextsOf(args.groups[first]))
                     /\ ret # <<>>

\* C27: the list scrapeJobs returns is the records of the pages that
\* reached the push, page after page and card after card; a page is pushed
\* whole and only once every card of it is enriched, as page number
\* Len(donePages) + 1; a page that ends the pagination by a fault, by no
\* content or by zero cards adds nothing.
C27_ReturnsTheFinishedPages ==
    /\ [](pc = "scrapeReturn" =>
             /\ allJobs = Flatten(donePages)
             /\ \A r \in Elems(allJobs) : IsEnriched(r)
             /\ endReason = "cap" => Len(donePages) = maxPages
             /\ endReason # "cap" => Len(donePages) = pageNum - 1)
    /\ [][/\ allJobs' # allJobs =>
                 \/ allJobs' = <<>>
                 \/ /\ pc = "pageEnd"
                    /\ allJobs' = allJobs \o jobs
                    /\ donePages' = Append(donePages, jobs)
                    /\ Len(donePages') = pageNum
                    /\ \A k \in 1..Len(jobs) : IsEnriched(jobs[k])
          /\ pc \in {"pageCatch", "waitCards", "extract"} => allJobs' = allJobs]_vars

C27_Witness ==
    /\ pc = "scrapeReturn"
    /\ shouldScrapeDetails
    /\ endReason = "fault"
    /\ pageFault = "extract"
    /\ pageNum = 2
    /\ Len(donePages) = 1
    /\ Len(allJobs) = 2
    /\ allJobs[1].jobUrl = "u1"
    /\ allJobs[2].jobUrl = "u2"

\* C28: for every scrapeAndSave call saved + duplicates <= found, with
\* equality exactly when no write was rejected with an error other than a
\* duplicate-key conflict; a rejected write is followed by the attempt of
\* the next record, and matched <= found.
C28_CountsBoundedByFound ==
    /\ [](pc = "save" =>
             /\ savedCount + duplicateCount <= saveIdx - 1
             /\ matchedCount <= saveIdx - 1
             /\ (savedCount + duplicateCount = saveIdx - 1
                   <=> inserted + updated + conflicts = saveIdx - 1))
    /\ [](pc = "kwEnd" =>
             /\ results.saved + results.duplicates <= results.found
             /\ results.matched <= results.found
             /\ results.found = Len(allJobs)
             /\ results.found > 0 =>
                   /\ saveIdx = results.found + 1
                   /\ (results.saved + results.duplicates = results.found
                         <=> inserted + updated + conflicts = results.found))
    /\ [][(pc = "save" /\ saveIdx <= Len(allJobs)) =>
             (pc' = "save" /\ saveIdx' = saveIdx + 1)]_vars

C28_Witness ==
    /\ pc = "kwEnd"
    /\ results.found = 2
    /\ results.saved + results.duplicates = 1
    /\ results.matched = 1
    /\ inserted + updated = 1
    /\ conflicts = 0
    /\ store # <<>>
    /\ store[Len(store)].jobUrl = "u2"

\* C30: a keyword whose scrape raises on page 1, or returns zero records,
\* writes nothing: the store changes only in a pass of the save loop, which
\* is entered only with at least one record and never after a raise, and
\* the counts returned for zero records found are all zero.
C30_NothingFoundNothingWritten ==
    /\ [][store' # store =>
             (pc = "save" /\ saveIdx <= Len(allJobs) /\ raisedKw = 0)]_vars
    /\ [][pc = "scrapeRaised" => (store' = store /\ pc' \notin {"save", "kwEnd"})]_vars
    /\ [][raisedKw # 0 => store' = store]_vars
    /\ [](pc = "scrapeRaised" => (pageNum = 1 /\ raisedKw = kw /\ allJobs = <<>>))
    /\ [][(pc = "scrapeReturn" /\ Len(allJobs) = 0) =>
             /\ pc' = "kwEnd"
             /\ store' = store
             /\ results' = [found |-> 0, saved |-> 0, duplicates |-> 0, matched |-> 0]]_vars
    /\ [](pc = "kwEnd" /\ results.found = 0 =>
             results.saved = 0 /\ results.duplicates = 0 /\ results.matched = 0)

C30_Witness ==
    /\ pc = "kwEnd"
    /\ kw = 2
    /\ allJobs = <<>>
    /\ results.found = 0
    /\ results.saved + results.duplicates + results.matched = 0
    /\ Len(store) = 2

\* C29: in each of the commands run, scrape, list and stats the connection
\* that connectDB opened is closed by closeDB on every exit path: when the
\* process has ended, closeDB was called on the connection if connectDB had
\* opened it, also when the body of the command raised.
C29_CloseDBOnEveryExit ==
    pc = "exit" => db # "open"
====
